---- MODULE Spec2Model ----
(***************************************************************************)
(* Model of scripts/generate_source.py: the generation runner              *)
(* (RunGenerators), the extension filter it applies to the registry tree,  *)
(* and the three reconciliation modes of main (direct, verify,             *)
(* incremental).                                                           *)
(*                                                                         *)
(* Strings that the code only compares for equality are TLA+ strings.      *)
(* API names and the text of the 'supported' attribute are sequences of    *)
(* characters, because the code splits the attribute text on ',' and       *)
(* tests membership of whole names; the two API names are abbreviated to   *)
(* "v" (vulkan) and "vs" (a second API whose name has vulkan as a prefix). *)
(***************************************************************************)
EXTENDS Integers, Sequences, FiniteSets, TLC

\* ------------------------------------------------------------------ bounds
\* longest target list given on the command line or to RunGenerators
MaxFilterLen == 3
\* number of repository files that differ from a fresh generation at start
MaxDiffs == 3
\* number of elements in a registry document
MaxElems == 2
\* total number of characters of 'supported' attribute text in a document
MaxSupLen == 4

\* ------------------------------------------------------- names and values
None == "None"
\* None where the other values are sequences
NoneSeq == <<None>>
Absent == "absent"

vulkan == <<"v">>
vulkansc == <<"v", "s">>
ApiNames == {vulkan, vulkansc}

\* the generators dict, in insertion order
generators ==
  << [name |-> "vk_safe_struct.h", generator |-> "SafeStructOutputGenerator", genCombined |-> TRUE],
     [name |-> "vk_safe_struct_utils.cpp", generator |-> "SafeStructOutputGenerator", genCombined |-> TRUE],
     [name |-> "vk_safe_struct_core.cpp", generator |-> "SafeStructOutputGenerator", genCombined |-> TRUE],
     [name |-> "vk_safe_struct_khr.cpp", generator |-> "SafeStructOutputGenerator", genCombined |-> TRUE],
     [name |-> "vk_safe_struct_ext.cpp", generator |-> "SafeStructOutputGenerator", genCombined |-> TRUE],
     [name |-> "vk_safe_struct_vendor.cpp", generator |-> "SafeStructOutputGenerator", genCombined |-> TRUE],
     [name |-> "vk_extension_helper.h", generator |-> "ExtensionHelperOutputGenerator", genCombined |-> TRUE],
     [name |-> "vk_api_version.h", generator |-> "ApiVersionOutputGenerator", genCombined |-> TRUE] >>

\* generators.keys(), in insertion order
GeneratorKeys == [i \in 1..Len(generators) |-> generators[i].name]

KeySet == {GeneratorKeys[i] : i \in 1..Len(GeneratorKeys)}

GenCombined(target) ==
  LET i == CHOOSE j \in 1..Len(generators) : generators[j].name = target
  IN  generators[i].genCombined

verify_exclude == {".clang-format"}

\* names a caller may put in a target list: some keys of the table and some
\* names that are no key
FilterNames == {"vk_api_version.h", "vk_safe_struct.h", "vk_extension_helper.h",
                "bogus.h", "typo.cpp"}

\* every filename of the model, in the order sorted() gives (code points)
SortedNames ==
  << ".clang-format", "bogus.h", "old_file.h", "typo.cpp", "vk_api_version.h",
     "vk_extension_helper.h", "vk_safe_struct.h", "vk_safe_struct_core.cpp",
     "vk_safe_struct_ext.cpp", "vk_safe_struct_khr.cpp",
     "vk_safe_struct_utils.cpp", "vk_safe_struct_vendor.cpp" >>

\* filenames a directory may hold
Files == KeySet \cup {".clang-format", "old_file.h"}

Contents == {"raw", "fmt", "stale", "style"}

EmptyDir == [f \in Files |-> Absent]

\* os.listdir as a set
ListDir(d) == {f \in Files : d[f] # Absent}

\* sorted(S) for a set of filenames
Sorted(S) == SelectSeq(SortedNames, LAMBDA f : f \in S)

Range(s) == {s[i] : i \in 1..Len(s)}

\* ------------------------------------------------------- extension filter
Chars == {"v", "s", ","}
NoAttr == <<"-">>

\* str.split(sep): the pieces between separators, empty pieces kept
RECURSIVE SplitFrom(_, _, _)
SplitFrom(s, sep, cur) ==
  IF s = <<>> THEN <<cur>>
  ELSE IF Head(s) = sep THEN <<cur>> \o SplitFrom(Tail(s), sep, <<>>)
       ELSE SplitFrom(Tail(s), sep, Append(cur, Head(s)))

Split(s, sep) == SplitFrom(s, sep, <<>>)

\* the condition of the comprehension that removes element e
FilterTestSubstring(e, apiList) ==
  /\ e.sup # NoAttr
  /\ \A i \in 1..Len(apiList) :
       ~ \E k \in 0..Len(e.sup) : \E n \in 0..Len(e.sup) :
           /\ k + n <= Len(e.sup)
           /\ SubSeq(e.sup, k + 1, k + n) = apiList[i]

FilterTest(e, apiList) ==
  /\ e.sup # NoAttr
  /\ \A i \in 1..Len(apiList) : apiList[i] \notin Range(Split(e.sup, ","))

\* children of the root's 'extensions' containers tagged 'extension' that
\* pass the test are removed; everything else stays, in document order
ExtensionFilter(tree, apiList) ==
  SelectSeq(tree, LAMBDA e :
    ~ (e.parent = "extensions" /\ e.tag = "extension" /\ FilterTest(e, apiList)))

\* ------------------------------------------------------ target selection
\* the names of the filter that are no key of the table, in filter order
UnknownTargetsFirstOnly(targetFilter) ==
  LET bad == SelectSeq(IF targetFilter = NoneSeq THEN <<>> ELSE targetFilter,
                       LAMBDA x : x \notin KeySet)
  IN  IF bad = <<>> THEN <<>> ELSE <<bad[1]>>

UnknownTargets(targetFilter) ==
  SelectSeq(IF targetFilter = NoneSeq THEN <<>> ELSE targetFilter,
            LAMBDA x : x \notin KeySet)

\* the selected targets: the keys of the table that the filter names, in
\* table order; an absent or empty filter selects every key
TargetsInFilterOrder(targetFilter) ==
  IF targetFilter = NoneSeq \/ targetFilter = <<>> THEN GeneratorKeys
  ELSE targetFilter

Targets(targetFilter) ==
  SelectSeq(GeneratorKeys,
            LAMBDA x : targetFilter = NoneSeq \/ targetFilter = <<>>
                       \/ x \in Range(targetFilter))

\* ------------------------------------------------------ per-target context
MergeApplies(api, target) == api # vulkan /\ GenCombined(target)

ApiList(api, target) ==
  IF MergeApplies(api, target) THEN <<api, vulkan>> ELSE <<api>>

\* the argument of SetMergedApiNames; prev is the value the global held
MergedApiNamesStale(prev, api, target) ==
  IF MergeApplies(api, target) THEN vulkan ELSE prev

MergedApiNames(prev, api, target) ==
  IF MergeApplies(api, target) THEN vulkan ELSE NoneSeq

\* what a generator writes and what clang-format -i leaves
Generated == "raw"
Format(c) == "fmt"

\* ------------------------------------------------------------ reconciling
\* the verify loop's verdict on one filename: 0 means the loop goes on
VerifyFileNoCompare(filename, temp_files, repo_files, temp, repo) ==
  IF filename \notin repo_files THEN 2
  ELSE IF filename \notin temp_files THEN 3
  ELSE 0

VerifyFileSwapped(filename, temp_files, repo_files, temp, repo) ==
  IF filename \notin repo_files THEN 3
  ELSE IF filename \notin temp_files THEN 2
  ELSE IF temp[filename] # repo[filename] THEN 4
  ELSE 0

VerifyFile(filename, temp_files, repo_files, temp, repo) ==
  IF filename \notin repo_files THEN 2
  ELSE IF filename \notin temp_files THEN 3
  ELSE IF temp[filename] # repo[filename] THEN 4
  ELSE 0

VerifyMessage(code) ==
  CASE code = 2 -> "ERROR: Missing repo file"
    [] code = 3 -> "ERROR: Missing generator for"
    [] code = 4 -> "ERROR: Repo files do not match generator output for"

\* the incremental loop's test on one filename
NeedsCopyOnlyMissing(filename, temp, repo) == repo[filename] = Absent

NeedsCopy(filename, temp, repo) ==
  \/ repo[filename] = Absent
  \/ temp[filename] # repo[filename]

\* tempfile.TemporaryDirectory: the directory is removed when the object is
\* finalized, at the latest when the interpreter exits
FinalizeLeak(temp_obj_state) == temp_obj_state

Finalize(temp_obj_state) ==
  IF temp_obj_state = "exists" THEN "removed" ELSE temp_obj_state

\* sys.exit(main(...)): the returned integer, or 1 after an uncaught exception
ExitCode(res) == IF res.kind = "exception" THEN 1 ELSE res.value

\* ------------------------------------------------------------------ state
VARIABLES
  entry,            \* "main" (command line), "RunGenerators" (called by a
                    \* downstream script) or "filter" (the filter on its own)
  pc,               \* position in the program
  args,             \* parsed command line
  gha_old_format,   \* IsGHA() and clang-format --version below 14
  has_clang_format, \* shutil.which('clang-format') is not None
  api,              \* RunGenerators parameters
  directory,
  targetFilter,
  context,          \* globals of base_generator set by Set...()
  targets,          \* the selected targets and the loop position
  index,
  apiList,
  registry,         \* the registry document on disk
  tree,             \* the tree handed to reg.loadElementTree
  fs,               \* contents of the repo, temp and -o directories
  repo0,            \* contents of the repo directory at start
  temp_obj,         \* "none", "exists" or "removed"
  gen_dir,
  listed,           \* the directory listed as temp_dir by the post step
  temp_files,
  repo_files,
  pending,          \* filenames the post-generation loop has still to visit
  trace,            \* generator runs, formatter runs and the post step
  calls,            \* what each generator saw when it was invoked
  report,           \* diagnostics printed
  rc,               \* value returned by RunGenerators: <<>> is None
  result,           \* how main ended
  exitCode          \* exit status of the process, -1 while it runs

vars == << entry, pc, args, gha_old_format, has_clang_format, api, directory,
           targetFilter, context, targets, index, apiList, registry, tree, fs,
           repo0, temp_obj, gen_dir, listed, temp_files, repo_files, pending,
           trace, calls, report, rc, result, exitCode >>

\* ----------------------------------------------------------------- inputs
\* target lists of one to MaxFilterLen names
FilterSeqs == UNION {[1..n -> FilterNames] : n \in 1..MaxFilterLen}

\* an element of the document: its parent's tag, its tag, its attribute
Sups == {NoAttr} \cup UNION {[1..n -> Chars] : n \in 0..MaxSupLen}

Elems ==
  [parent : {"extensions"}, tag : {"extension"}, sup : Sups]
    \cup [parent : {"extensions", "types"}, tag : {"extension", "comment"},
          sup : {NoAttr, <<"s">>}]

SupLen(e) == IF e.sup = NoAttr THEN 0 ELSE Len(e.sup)

\* the documents of at most n elements and at most budget characters of
\* attribute text
RECURSIVE DocsOf(_, _)
DocsOf(n, budget) ==
  IF n = 0 THEN {<<>>}
  ELSE {<<>>} \cup
       UNION { { <<e>> \o d : d \in DocsOf(n - 1, budget - SupLen(e)) } :
               e \in {x \in Elems : SupLen(x) <= budget} }

\* the registry the runs of main and RunGenerators read
SampleRegistry ==
  << [parent |-> "types", tag |-> "comment", sup |-> NoAttr],
     [parent |-> "extensions", tag |-> "extension", sup |-> <<"v">>],
     [parent |-> "extensions", tag |-> "extension", sup |-> <<"v", "s">>],
     [parent |-> "extensions", tag |-> "extension", sup |-> NoAttr] >>

\* the repo directory as a generation in this environment would leave it
Baseline(clang) ==
  [f \in Files |->
     IF f \in KeySet THEN (IF clang THEN Format(Generated) ELSE Generated)
     ELSE IF f = ".clang-format" THEN "style" ELSE Absent]

\* the files of the repo directory that may differ from the baseline at start
Perturbed == (FilterNames \cap KeySet) \cup {".clang-format", "old_file.h"}

\* the baseline with at most MaxDiffs files missing, stale or added
RepoStates(clang) ==
  LET base == Baseline(clang)
  IN  UNION { { [f \in Files |-> IF f \in S THEN c[f] ELSE base[f]] :
                c \in {x \in [S -> {Absent, "stale"}] :
                        \A f \in S : x[f] # base[f]} } :
              S \in {T \in SUBSET Perturbed : Cardinality(T) <= MaxDiffs} }

ArgSets ==
  [verify : {TRUE}, incremental : {FALSE}, target : {NoneSeq},
   output_directory : {None, "out"}]
    \cup [verify : {FALSE}, incremental : {TRUE}, target : {NoneSeq},
          output_directory : {None, "out"}]
    \cup [verify : {FALSE}, incremental : {FALSE},
          target : {NoneSeq} \cup FilterSeqs, output_directory : {None, "out"}]

NoResult == [kind |-> "none", value |-> 0]

Idle ==
  /\ api = NoneSeq /\ directory = None /\ targetFilter = NoneSeq
  /\ targets = <<>> /\ index = 0 /\ apiList = <<>> /\ tree = <<>>
  /\ temp_obj = "none" /\ gen_dir = None /\ listed = None
  /\ temp_files = {} /\ repo_files = {} /\ pending = <<>>
  /\ trace = <<>> /\ calls = <<>> /\ report = <<>>
  /\ rc = <<>> /\ result = NoResult /\ exitCode = -1

\* the script is started from the command line
Init ==
  /\ entry = "main" /\ pc = "start"
  /\ args \in ArgSets
  /\ gha_old_format \in (IF args.verify THEN BOOLEAN ELSE {FALSE})
  /\ has_clang_format \in BOOLEAN
  /\ registry = SampleRegistry
  /\ context = [outputDirectory |-> None, targetApiName |-> NoneSeq,
                mergedApiNames |-> NoneSeq]
  /\ repo0 \in (IF args.verify \/ args.incremental
                THEN RepoStates(has_clang_format)
                ELSE {Baseline(has_clang_format)})
  /\ fs = [repo |-> repo0, temp |-> EmptyDir, out |-> EmptyDir]
  /\ Idle

\* RunGenerators is called by another script, which may have called it before
InitRun ==
  /\ entry = "RunGenerators" /\ pc = "call"
  /\ args = [verify |-> FALSE, incremental |-> FALSE, target |-> NoneSeq,
             output_directory |-> None]
  /\ gha_old_format = FALSE
  /\ has_clang_format \in BOOLEAN
  /\ registry = SampleRegistry
  /\ context \in [outputDirectory : {None}, targetApiName : {NoneSeq},
                  mergedApiNames : {NoneSeq, vulkan}]
  /\ repo0 = EmptyDir
  /\ fs = [repo |-> EmptyDir, temp |-> EmptyDir, out |-> EmptyDir]
  /\ api \in ApiNames /\ directory = "out"
  /\ targetFilter \in {NoneSeq, <<>>} \cup FilterSeqs
  /\ targets = <<>> /\ index = 0 /\ apiList = <<>> /\ tree = <<>>
  /\ temp_obj = "none" /\ gen_dir = None /\ listed = None
  /\ temp_files = {} /\ repo_files = {} /\ pending = <<>>
  /\ trace = <<>> /\ calls = <<>> /\ report = <<>>
  /\ rc = <<>> /\ result = NoResult /\ exitCode = -1

\* a parsed document is about to be filtered
InitFilter ==
  /\ entry = "filter" /\ pc = "parsed"
  /\ args = [verify |-> FALSE, incremental |-> FALSE, target |-> NoneSeq,
             output_directory |-> None]
  /\ gha_old_format = FALSE /\ has_clang_format = FALSE
  /\ registry \in DocsOf(MaxElems, MaxSupLen)
  /\ context = [outputDirectory |-> None, targetApiName |-> NoneSeq,
                mergedApiNames |-> NoneSeq]
  /\ repo0 = EmptyDir
  /\ fs = [repo |-> EmptyDir, temp |-> EmptyDir, out |-> EmptyDir]
  /\ api = NoneSeq /\ directory = None /\ targetFilter = NoneSeq
  /\ targets = <<>> /\ index = 0 /\ tree = <<>>
  /\ apiList \in {<<vulkan>>, <<vulkansc>>, <<vulkansc, vulkan>>}
  /\ temp_obj = "none" /\ gen_dir = None /\ listed = None
  /\ temp_files = {} /\ repo_files = {} /\ pending = <<>>
  /\ trace = <<>> /\ calls = <<>> /\ report = <<>>
  /\ rc = <<>> /\ result = NoResult /\ exitCode = -1

\* ---------------------------------------------------------- RunGenerators
Event(ev, target) == [ev |-> ev, target |-> target]

\* entry of RunGenerators up to the loop: the clang-format lookup, the two
\* context setters, the unknown-target check and the target selection
RunGeneratorsEnter ==
  /\ pc = "call"
  /\ context' = [context EXCEPT !.outputDirectory = directory,
                                !.targetApiName = api]
  /\ LET unknownTargets == UnknownTargets(targetFilter)
         warn == IF has_clang_format THEN <<>>
                 ELSE << [kind |-> "WARNING: Unable to find clang-format!",
                          names |-> <<>>] >>
     IN  IF unknownTargets # <<>>
         THEN /\ report' = report \o warn \o
                   << [kind |-> "ERROR: No generator options for unknown target(s)",
                       names |-> unknownTargets] >>
              /\ rc' = <<1>>
              /\ pc' = "ret"
              /\ UNCHANGED << targets, index >>
         ELSE /\ report' = report \o warn
              /\ targets' = Targets(targetFilter)
              /\ index' = 1
              /\ rc' = rc
              /\ pc' = IF Targets(targetFilter) = <<>> THEN "ret" ELSE "generate"
  /\ UNCHANGED << entry, args, gha_old_format, has_clang_format, api, directory,
                  targetFilter, apiList, registry, tree, fs, repo0, temp_obj,
                  gen_dir, listed, temp_files, repo_files, pending, trace,
                  calls, result, exitCode >>

\* one pass of the loop body up to reg.apiGen(): the generator is created,
\* the API list and the merged names are set, the registry is parsed anew and
\* filtered, and the generator writes the target's file
GenStep ==
  /\ pc = "generate"
  /\ LET target == targets[index]
         list == ApiList(api, target)
         merged == MergedApiNames(context.mergedApiNames, api, target)
     IN  /\ apiList' = list
         /\ context' = [context EXCEPT !.mergedApiNames = merged]
         /\ tree' = ExtensionFilter(registry, list)
         /\ calls' = Append(calls,
               [target |-> target, customFileName |-> target,
                generator |-> generators[CHOOSE j \in 1..Len(generators) :
                                           generators[j].name = target].generator,
                apiList |-> list, mergedApiNames |-> merged,
                outputDirectory |-> context.outputDirectory,
                targetApiName |-> context.targetApiName])
         /\ trace' = Append(trace, Event("generate", target))
         /\ fs' = [fs EXCEPT ![directory][target] = Generated]
  /\ IF has_clang_format
     THEN pc' = "format" /\ index' = index
     ELSE /\ index' = index + 1
          /\ pc' = IF index = Len(targets) THEN "ret" ELSE "generate"
  /\ UNCHANGED << entry, args, gha_old_format, has_clang_format, api, directory,
                  targetFilter, targets, registry, repo0, temp_obj, gen_dir,
                  listed, temp_files, repo_files, pending, report, rc, result,
                  exitCode >>

\* the generator or the registry loader raises: nothing in RunGenerators or
\* main catches it
GenFail ==
  /\ pc = "generate"
  /\ result' = [kind |-> "exception", value |-> 0]
  /\ pc' = IF entry = "main" THEN "raised" ELSE "done"
  /\ UNCHANGED << entry, args, gha_old_format, has_clang_format, api, directory,
                  targetFilter, context, targets, index, apiList, registry,
                  tree, fs, repo0, temp_obj, gen_dir, listed, temp_files,
                  repo_files, pending, trace, calls, report, rc, exitCode >>

\* clang-format -i on the file just written
FormatStep ==
  /\ pc = "format"
  /\ LET target == targets[index]
     IN  /\ fs' = [fs EXCEPT ![directory][target] = Format(fs[directory][target])]
         /\ trace' = Append(trace, Event("format", target))
  /\ index' = index + 1
  /\ pc' = IF index = Len(targets) THEN "ret" ELSE "generate"
  /\ UNCHANGED << entry, args, gha_old_format, has_clang_format, api, directory,
                  targetFilter, context, targets, apiList, registry, tree,
                  repo0, temp_obj, gen_dir, listed, temp_files, repo_files,
                  pending, calls, report, rc, result, exitCode >>

\* RunGenerators returns to its caller; main does not look at the value
RunGeneratorsReturn ==
  /\ pc = "ret"
  /\ pc' = IF entry = "main" THEN "post" ELSE "done"
  /\ UNCHANGED << entry, args, gha_old_format, has_clang_format, api, directory,
                  targetFilter, context, targets, index, apiList, registry,
                  tree, fs, repo0, temp_obj, gen_dir, listed, temp_files,
                  repo_files, pending, trace, calls, report, rc, result,
                  exitCode >>

\* ------------------------------------------------------------------- main
\* the early return under GitHub Actions with an old clang-format
MainSkip ==
  /\ pc = "start"
  /\ args.verify /\ gha_old_format
  /\ result' = [kind |-> "return", value |-> 0]
  /\ pc' = "returned"
  /\ UNCHANGED << entry, args, gha_old_format, has_clang_format, api, directory,
                  targetFilter, context, targets, index, apiList, registry,
                  tree, fs, repo0, temp_obj, gen_dir, listed, temp_files,
                  repo_files, pending, trace, calls, report, rc, exitCode >>

\* main up to the call of RunGenerators: the temporary directory, gen_dir
\* and its override by -o
MainSetup ==
  /\ pc = "start"
  /\ ~ (args.verify /\ gha_old_format)
  /\ temp_obj' = IF args.verify \/ args.incremental THEN "exists" ELSE "none"
  /\ LET dir == IF args.output_directory # None THEN args.output_directory
                ELSE IF args.verify \/ args.incremental THEN "temp"
                ELSE "repo"
     IN  /\ gen_dir' = dir
         /\ directory' = dir
  /\ api' = vulkan
  /\ targetFilter' = args.target
  /\ pc' = "call"
  /\ UNCHANGED << entry, args, gha_old_format, has_clang_format, context,
                  targets, index, apiList, registry, tree, fs, repo0, listed,
                  temp_files, repo_files, pending, trace, calls, report, rc,
                  result, exitCode >>

\* neither --verify nor --incremental: nothing is left to do
PostDirect ==
  /\ pc = "post"
  /\ ~ args.verify /\ ~ args.incremental
  /\ result' = [kind |-> "return", value |-> 0]
  /\ pc' = "returned"
  /\ UNCHANGED << entry, args, gha_old_format, has_clang_format, api, directory,
                  targetFilter, context, targets, index, apiList, registry,
                  tree, fs, repo0, temp_obj, gen_dir, listed, temp_files,
                  repo_files, pending, trace, calls, report, rc, exitCode >>

\* --verify: the two listings and the sorted names to compare
VerifyList ==
  /\ pc = "post"
  /\ args.verify
  /\ listed' = "temp"
  /\ temp_files' = ListDir(fs["temp"])
  /\ repo_files' = ListDir(fs["repo"])
  /\ pending' = Sorted((ListDir(fs["temp"]) \cup ListDir(fs["repo"])) \ verify_exclude)
  /\ trace' = Append(trace, Event("verify", None))
  /\ pc' = "verify"
  /\ UNCHANGED << entry, args, gha_old_format, has_clang_format, api, directory,
                  targetFilter, context, targets, index, apiList, registry,
                  tree, fs, repo0, temp_obj, gen_dir, calls, report, rc,
                  result, exitCode >>

\* one pass of the verify loop, or the success message after the last one
VerifyStep ==
  /\ pc = "verify"
  /\ IF pending = <<>>
     THEN /\ report' = Append(report,
                [kind |-> "SUCCESS: Repo files match generator output",
                 names |-> <<>>])
          /\ result' = [kind |-> "return", value |-> 0]
          /\ pc' = "returned"
          /\ pending' = pending
     ELSE LET filename == Head(pending)
              code == VerifyFile(filename, temp_files, repo_files,
                                 fs["temp"], fs["repo"])
          IN  IF code = 0
              THEN /\ pending' = Tail(pending)
                   /\ UNCHANGED << report, result, pc >>
              ELSE /\ report' = Append(report,
                         [kind |-> VerifyMessage(code), names |-> <<filename>>])
                   /\ result' = [kind |-> "return", value |-> code]
                   /\ pc' = "returned"
                   /\ pending' = pending
  /\ UNCHANGED << entry, args, gha_old_format, has_clang_format, api, directory,
                  targetFilter, context, targets, index, apiList, registry,
                  tree, fs, repo0, temp_obj, gen_dir, listed, temp_files,
                  repo_files, trace, calls, rc, exitCode >>

\* --incremental: the listing of temp_dir
IncrementalList ==
  /\ pc = "post"
  /\ ~ args.verify /\ args.incremental
  /\ listed' = "temp"
  /\ pending' = Sorted(ListDir(fs["temp"]))
  /\ trace' = Append(trace, Event("incremental", None))
  /\ pc' = "incremental"
  /\ UNCHANGED << entry, args, gha_old_format, has_clang_format, api, directory,
                  targetFilter, context, targets, index, apiList, registry,
                  tree, fs, repo0, temp_obj, gen_dir, temp_files, repo_files,
                  calls, report, rc, result, exitCode >>

\* one pass of the incremental loop, or the return after the last one;
\* os.listdir gives the names in no particular order, so the pass takes any
\* name not yet visited
IncrementalStep ==
  /\ pc = "incremental"
  /\ IF pending = <<>>
     THEN /\ result' = [kind |-> "return", value |-> 0]
          /\ pc' = "returned"
          /\ UNCHANGED << pending, fs, report >>
     ELSE \E filename \in Range(pending) :
            /\ pending' = SelectSeq(pending, LAMBDA x : x # filename)
            /\ UNCHANGED << result, pc >>
            /\ IF NeedsCopy(filename, fs["temp"], fs["repo"])
               THEN /\ report' = Append(report,
                          [kind |-> "update", names |-> <<filename>>])
                    /\ fs' = [fs EXCEPT !["repo"][filename] = fs["temp"][filename]]
               ELSE UNCHANGED << fs, report >>
  /\ UNCHANGED << entry, args, gha_old_format, has_clang_format, api, directory,
                  targetFilter, context, targets, index, apiList, registry,
                  tree, repo0, temp_obj, gen_dir, listed, temp_files,
                  repo_files, trace, calls, rc, exitCode >>

\* shutil.copyfile raises on the name the pass has taken
CopyFail ==
  /\ pc = "incremental"
  /\ \E filename \in Range(pending) :
       /\ NeedsCopy(filename, fs["temp"], fs["repo"])
       /\ report' = Append(report, [kind |-> "update", names |-> <<filename>>])
  /\ result' = [kind |-> "exception", value |-> 0]
  /\ pc' = "raised"
  /\ UNCHANGED << entry, args, gha_old_format, has_clang_format, api, directory,
                  targetFilter, context, targets, index, apiList, registry,
                  tree, fs, repo0, temp_obj, gen_dir, listed, temp_files,
                  repo_files, pending, trace, calls, rc, exitCode >>

\* sys.exit(main(...)), or the interpreter ending after a traceback; the
\* TemporaryDirectory object is finalized
ProcessExit ==
  /\ pc \in {"returned", "raised"}
  /\ exitCode' = ExitCode(result)
  /\ temp_obj' = Finalize(temp_obj)
  /\ fs' = IF Finalize(temp_obj) = "removed" THEN [fs EXCEPT !["temp"] = EmptyDir]
           ELSE fs
  /\ pc' = "exited"
  /\ UNCHANGED << entry, args, gha_old_format, has_clang_format, api, directory,
                  targetFilter, context, targets, index, apiList, registry,
                  tree, repo0, gen_dir, listed, temp_files, repo_files,
                  pending, trace, calls, report, rc, result >>

\* ------------------------------------------------------- the filter alone
\* line 141 applied to a parsed document
ApplyFilter ==
  /\ pc = "parsed"
  /\ tree' = ExtensionFilter(registry, apiList)
  /\ pc' = "filtered"
  /\ UNCHANGED << entry, args, gha_old_format, has_clang_format, api, directory,
                  targetFilter, context, targets, index, apiList, registry, fs,
                  repo0, temp_obj, gen_dir, listed, temp_files, repo_files,
                  pending, trace, calls, report, rc, result, exitCode >>

\* --------------------------------------------------------- specifications
Next ==
  \/ MainSkip
  \/ MainSetup
  \/ RunGeneratorsEnter
  \/ GenStep
  \/ GenFail
  \/ FormatStep
  \/ RunGeneratorsReturn
  \/ PostDirect
  \/ VerifyList
  \/ VerifyStep
  \/ IncrementalList
  \/ IncrementalStep
  \/ CopyFail
  \/ ProcessExit

Spec == Init /\ [][Next]_vars

NextRun ==
  \/ RunGeneratorsEnter
  \/ GenStep
  \/ GenFail
  \/ FormatStep
  \/ RunGeneratorsReturn

SpecRun == InitRun /\ [][NextRun]_vars

NextFilter == ApplyFilter

SpecFilter == InitFilter /\ [][NextFilter]_vars

\* ------------------------------------------------------------ properties
Last(s) == s[Len(s)]

\* filenames the verify comparison looks at
Compared == Files \ verify_exclude

\* the comparison or the copy loop of this run has ended and main returned
VerifyReturned == pc = "returned" /\ args.verify /\ listed = "temp"

\* C1: in verify mode, when every non-excluded filename found in either
\* directory is in both with the same content, main prints the success
\* marker and returns 0; when the non-excluded filenames of the two
\* directories are the same and exactly one of them differs in content, main
\* returns 4 and reports that file.
C1_VerifyEqualOrOneMismatch ==
  VerifyReturned =>
    LET W == fs["temp"]
        R == fs["repo"]
        differing == {f \in Compared : W[f] # R[f]}
    IN  /\ differing = {} =>
             /\ result = [kind |-> "return", value |-> 0]
             /\ report # <<>>
             /\ Last(report).kind = "SUCCESS: Repo files match generator output"
        /\ ( /\ ListDir(W) \cap Compared = ListDir(R) \cap Compared
             /\ Cardinality(differing) = 1 ) =>
             /\ result = [kind |-> "return", value |-> 4]
             /\ report # <<>>
             /\ Last(report).kind = "ERROR: Repo files do not match generator output for"
             /\ Range(Last(report).names) = differing

C1_Witness ==
  /\ VerifyReturned
  /\ ListDir(fs["temp"]) \cap Compared = ListDir(fs["repo"]) \cap Compared
  /\ Cardinality({f \in Compared : fs["temp"][f] # fs["repo"][f]}) = 1
  /\ fs["repo"][".clang-format"] # fs["temp"][".clang-format"]
  /\ result.value = 4

\* C2: in verify mode, when the only discrepancy is one non-excluded file
\* that is in the repository directory and not in the working set, main
\* returns 3 and names it; when it is in the working set and not in the
\* repository directory, main returns 2 and names it.
C2_VerifyMissingFile ==
  VerifyReturned =>
    LET W == fs["temp"]
        R == fs["repo"]
    IN  \A f \in Compared :
          (\A g \in Compared \ {f} : W[g] = R[g]) =>
            /\ (R[f] # Absent /\ W[f] = Absent) =>
                 /\ result = [kind |-> "return", value |-> 3]
                 /\ report # <<>>
                 /\ Last(report) = [kind |-> "ERROR: Missing generator for",
                                    names |-> <<f>>]
            /\ (W[f] # Absent /\ R[f] = Absent) =>
                 /\ result = [kind |-> "return", value |-> 2]
                 /\ report # <<>>
                 /\ Last(report) = [kind |-> "ERROR: Missing repo file",
                                    names |-> <<f>>]

C2_Witness ==
  /\ VerifyReturned
  /\ result.value = 3
  /\ fs["repo"]["old_file.h"] # Absent
  /\ \A g \in Compared \ {"old_file.h"} : fs["temp"][g] = fs["repo"][g]
  /\ fs["temp"]["vk_api_version.h"] # Absent

\* C3: after incremental mode completes, every file of the working
\* directory has the same content in the repository directory, every file
\* that is only in the repository directory is as it was, and main returns
\* 0; no step of the run removes a repository file.
C3_IncrementalPublishes ==
  args.incremental =>
    /\ \A f \in Files : repo0[f] # Absent => fs["repo"][f] # Absent
    /\ (pc = "returned" /\ result.kind = "return") =>
         /\ result.value = 0
         /\ \A f \in Files :
              IF fs["temp"][f] # Absent
              THEN fs["repo"][f] = fs["temp"][f]
              ELSE fs["repo"][f] = repo0[f]

C3_Witness ==
  /\ args.incremental /\ pc = "returned" /\ result.kind = "return"
  /\ \E f \in Files : repo0[f] = "stale" /\ fs["temp"][f] \notin {Absent, "stale"}
                      /\ fs["repo"][f] = fs["temp"][f]
  /\ \E f \in Files : repo0[f] = Absent /\ fs["temp"][f] # Absent
                      /\ fs["repo"][f] = fs["temp"][f]
  /\ \E f \in Files : fs["temp"][f] = Absent /\ repo0[f] # Absent

\* C4: when the target filter holds a name that is no key of the table,
\* RunGenerators returns 1 after an error that lists exactly the unknown
\* names of the filter, and no generator and no formatter has run.
C4_UnknownTargetsRejected ==
  (targetFilter # NoneSeq /\ Range(targetFilter) \ KeySet # {}) =>
    /\ calls = <<>> /\ trace = <<>>
    /\ fs["out"] = EmptyDir
    /\ pc \notin {"generate", "format"}
    /\ pc \in {"ret", "done"} =>
         /\ rc = <<1>>
         /\ report # <<>>
         /\ Last(report).kind = "ERROR: No generator options for unknown target(s)"
         /\ Range(Last(report).names) = Range(targetFilter) \ KeySet

C4_Witness ==
  /\ pc = "done"
  /\ targetFilter # NoneSeq
  /\ Cardinality(Range(targetFilter) \ KeySet) = 2
  /\ Range(targetFilter) \cap KeySet # {}
  /\ rc = <<1>>

\* C5: a run from the command line whose target list holds an unknown name
\* exits with a code that is none of 0, 2, 3 and 4.
C5_UnknownTargetExitCode ==
  (pc = "exited" /\ args.target # NoneSeq /\ Range(args.target) \ KeySet # {}) =>
    exitCode \notin {0, 2, 3, 4}

\* the names of a 'supported' text: the pieces that no comma crosses and
\* that a comma or an end of the text bounds on both sides
SupportedNames(sup) ==
  { SubSeq(sup, i, j) : <<i, j>> \in
      { p \in (1..Len(sup) + 1) \X (0..Len(sup)) :
          /\ p[2] >= p[1] - 1
          /\ \A k \in p[1]..p[2] : sup[k] # ","
          /\ (p[1] = 1 \/ sup[p[1] - 1] = ",")
          /\ (p[2] = Len(sup) \/ sup[p[2] + 1] = ",") } }

ShouldRemove(e, list) ==
  /\ e.parent = "extensions" /\ e.tag = "extension"
  /\ e.sup # NoAttr
  /\ SupportedNames(e.sup) \cap Range(list) = {}

KeptPositions(doc, list) == {i \in 1..Len(doc) : ~ ShouldRemove(doc[i], list)}

\* C6: the filter removes an extension element of an extensions container
\* exactly when it has a supported attribute none of whose comma-separated
\* names is in the API list; every other element stays, in document order.
C6_ExtensionFilter ==
  pc = "filtered" =>
    LET kept == KeptPositions(registry, apiList)
    IN  /\ Len(tree) = Cardinality(kept)
        /\ \A k \in 1..Len(tree) :
             tree[k] = registry[CHOOSE i \in kept :
                                  Cardinality({j \in kept : j <= i}) = k]

C6_Witness ==
  /\ pc = "filtered"
  /\ Len(registry) = 2 /\ Len(tree) = 1
  /\ registry[1].sup = <<"s">> /\ registry[2].sup = <<"s", ",", "v">>
  /\ registry[1].parent = "extensions" /\ registry[1].tag = "extension"
  /\ apiList = <<vulkan>>
  /\ tree[1] = registry[2]

\* the merge applies to a call when the API is not vulkan and the target is
\* marked genCombined in the table
CallMerges(c) ==
  /\ c.targetApiName # vulkan
  /\ \E i \in 1..Len(generators) :
       generators[i].name = c.target /\ generators[i].genCombined

CallScopeRight(c) ==
  c.apiList = IF CallMerges(c) THEN <<c.targetApiName, vulkan>>
              ELSE <<c.targetApiName>>

\* C7 as stated: at each generator invocation the API list is [apiName],
\* with 'vulkan' appended exactly when the merge applies, and the merged-API
\* names are that whole list when the merge applies and absent otherwise.
C7_MergedIsWholeScope ==
  \A i \in 1..Len(calls) :
    /\ calls[i].targetApiName = api
    /\ CallScopeRight(calls[i])
    /\ IF CallMerges(calls[i])
       THEN {calls[i].mergedApiNames} = Range(calls[i].apiList)
       ELSE calls[i].mergedApiNames = NoneSeq

\* C7 amended: at each generator invocation the API list is [apiName], with
\* 'vulkan' appended exactly when the merge applies, and the merged-API names
\* are the base API name 'vulkan' alone when the merge applies and absent
\* otherwise, whatever the context held before.
C7_MergedIsBaseApi ==
  \A i \in 1..Len(calls) :
    /\ calls[i].targetApiName = api
    /\ CallScopeRight(calls[i])
    /\ calls[i].mergedApiNames =
         IF CallMerges(calls[i]) THEN vulkan ELSE NoneSeq

C7_Witness ==
  /\ Len(calls) >= 2
  /\ api = vulkansc
  /\ calls[2].apiList = <<vulkansc, vulkan>>
  /\ calls[2].mergedApiNames = vulkan

\* the targets a filter of known names selects, in table order
Selected(filter) ==
  LET sel == IF filter = NoneSeq \/ filter = <<>> THEN KeySet ELSE Range(filter)
  IN  SelectSeq(GeneratorKeys, LAMBDA x : x \in sel)

Generates(tr) == SelectSeq(tr, LAMBDA e : e.ev = "generate")

IsPrefix(s, t) == Len(s) <= Len(t) /\ \A i \in 1..Len(s) : s[i] = t[i]

\* C8: with a filter of known names, each selected target is generated once
\* and in table order; a target's formatter run follows its generator run
\* before anything else happens; the verify or incremental step comes after
\* the last selected target is finished.
C8_SequentialTableOrder ==
  (directory # None /\ (targetFilter = NoneSeq \/ Range(targetFilter) \subseteq KeySet)) =>
    LET want == Selected(targetFilter)
        gens == Generates(trace)
    IN  /\ IsPrefix([i \in 1..Len(gens) |-> gens[i].target], want)
        /\ (pc \in {"ret", "post", "verify", "incremental", "returned"}
            \/ (pc = "exited" /\ result.kind = "return")) =>
             Len(gens) = Len(want)
        /\ \A i \in 1..Len(trace) :
             /\ trace[i].ev = "generate" =>
                  IF has_clang_format
                  THEN IF i = Len(trace) THEN pc = "format"
                       ELSE trace[i + 1] = Event("format", trace[i].target)
                  ELSE i = Len(trace) \/ trace[i + 1].ev # "format"
             /\ trace[i].ev = "format" =>
                  /\ has_clang_format
                  /\ i > 1
                  /\ trace[i - 1] = Event("generate", trace[i].target)
             /\ trace[i].ev \in {"verify", "incremental"} =>
                  /\ i = Len(trace)
                  /\ Len(gens) = Len(want)
                  /\ i = Len(want) * (IF has_clang_format THEN 2 ELSE 1) + 1

C8_Witness ==
  /\ pc = "returned" /\ has_clang_format
  /\ Len(args.target) = 3
  /\ args.target = <<"vk_api_version.h", "vk_safe_struct.h", "vk_api_version.h">>
  /\ Len(trace) = 4
  /\ trace[1].target = "vk_safe_struct.h"

C10_WorkingDirIsGenDir ==
  /\ listed # None => listed = directory
  /\ ((args.verify \/ args.incremental) /\ directory # None) => directory = "temp"

====
